---- MODULE Spec2Model ----
(***************************************************************************)
(* GST bill reconciliation engine of gst_bill_analyzer_gemini.py:          *)
(* GeminiGSTAnalyzer.get_correct_gst_rate, validate_extraction,            *)
(* calculate_correct_gst, analyze_bill, BillAnalysisResult.to_dict and     *)
(* print_analysis.                                                         *)
(*                                                                         *)
(* Representation.  Money is an integer number of mills (1/1000 rupee), so *)
(* 1 rupee = 1000 and 1 paisa = 10; a value rounded to 2 decimals is a     *)
(* multiple of 10.  GST rates are integer percents.  Confidence is an      *)
(* integer number of hundredths (1.0 = 100).  Arithmetic is exact rational *)
(* arithmetic; the representation error of binary floating point is not    *)
(* modelled.  Python's round(x, 2) is round-half-to-even on the exact      *)
(* value.  The two agree except where the exact value is a rounding tie    *)
(* (x.xx5) or lies exactly on a comparison threshold: there the binary     *)
(* value may fall on either side.  A Python dict is a function whose       *)
(* DOMAIN is the set of keys present, so dict.get(k, d) is Get(dict, k, d).*)
(* Python strings are TLA+ strings; CharsTable gives the characters of     *)
(* each string the model uses.                                             *)
(***************************************************************************)
EXTENDS Integers, Sequences, FiniteSets, TLC

VARIABLES db, call, pc, ret, saved, printed, first

vars == <<db, call, pc, ret, saved, printed, first>>

\* Python None / SQL NULL.
None == "None"

----------------------------------------------------------------------------
\* Strings

CharsTable ==
       ("cashew" :> <<"c", "a", "s", "h", "e", "w">>)
    @@ ("almond" :> <<"a", "l", "m", "o", "n", "d">>)
    @@ ("walnut" :> <<"w", "a", "l", "n", "u", "t">>)
    @@ ("dates" :> <<"d", "a", "t", "e", "s">>)
    @@ ("raisin" :> <<"r", "a", "i", "s", "i", "n">>)
    @@ ("pistachio" :> <<"p", "i", "s", "t", "a", "c", "h", "i", "o">>)
    @@ ("badam" :> <<"b", "a", "d", "a", "m">>)
    @@ ("kaju" :> <<"k", "a", "j", "u">>)
    @@ ("pista" :> <<"p", "i", "s", "t", "a">>)
    @@ ("kishmish" :> <<"k", "i", "s", "h", "m", "i", "s", "h">>)
    @@ ("anjeer" :> <<"a", "n", "j", "e", "e", "r">>)
    @@ ("fig" :> <<"f", "i", "g">>)
    @@ ("mixed nuts" :> <<"m", "i", "x", "e", "d", " ", "n", "u", "t", "s">>)
    @@ ("mixed bites" :> <<"m", "i", "x", "e", "d", " ", "b", "i", "t", "e", "s">>)
    @@ ("dry fruit" :> <<"d", "r", "y", " ", "f", "r", "u", "i", "t">>)
    @@ ("mobile" :> <<"m", "o", "b", "i", "l", "e">>)
    @@ ("phone" :> <<"p", "h", "o", "n", "e">>)
    @@ ("laptop" :> <<"l", "a", "p", "t", "o", "p">>)
    @@ ("computer" :> <<"c", "o", "m", "p", "u", "t", "e", "r">>)
    @@ ("charger" :> <<"c", "h", "a", "r", "g", "e", "r">>)
    @@ ("earphone" :> <<"e", "a", "r", "p", "h", "o", "n", "e">>)
    @@ ("headphone" :> <<"h", "e", "a", "d", "p", "h", "o", "n", "e">>)
    @@ ("tv" :> <<"t", "v">>)
    @@ ("television" :> <<"t", "e", "l", "e", "v", "i", "s", "i", "o", "n">>)
    @@ ("ac" :> <<"a", "c">>)
    @@ ("refrigerator" :> <<"r", "e", "f", "r", "i", "g", "e", "r", "a", "t", "o", "r">>)
    @@ ("washing machine" :> <<"w", "a", "s", "h", "i", "n", "g", " ", "m", "a", "c", "h", "i", "n", "e">>)
    @@ ("medicine" :> <<"m", "e", "d", "i", "c", "i", "n", "e">>)
    @@ ("tablet" :> <<"t", "a", "b", "l", "e", "t">>)
    @@ ("syrup" :> <<"s", "y", "r", "u", "p">>)
    @@ ("injection" :> <<"i", "n", "j", "e", "c", "t", "i", "o", "n">>)
    @@ ("capsule" :> <<"c", "a", "p", "s", "u", "l", "e">>)
    @@ ("test" :> <<"t", "e", "s", "t">>)
    @@ ("pathology" :> <<"p", "a", "t", "h", "o", "l", "o", "g", "y">>)
    @@ ("xray" :> <<"x", "r", "a", "y">>)
    @@ ("scan" :> <<"s", "c", "a", "n">>)
    @@ ("parotta" :> <<"p", "a", "r", "o", "t", "t", "a">>)
    @@ ("chapati" :> <<"c", "h", "a", "p", "a", "t", "i">>)
    @@ ("roti" :> <<"r", "o", "t", "i">>)
    @@ ("bread" :> <<"b", "r", "e", "a", "d">>)
    @@ ("milk" :> <<"m", "i", "l", "k">>)
    @@ ("curd" :> <<"c", "u", "r", "d">>)
    @@ ("vegetables" :> <<"v", "e", "g", "e", "t", "a", "b", "l", "e", "s">>)
    @@ ("fruits" :> <<"f", "r", "u", "i", "t", "s">>)
    @@ ("eggs" :> <<"e", "g", "g", "s">>)
    @@ ("dosa" :> <<"d", "o", "s", "a">>)
    @@ ("idli" :> <<"i", "d", "l", "i">>)
    @@ ("vada" :> <<"v", "a", "d", "a">>)
    @@ ("rice" :> <<"r", "i", "c", "e">>)
    @@ ("dal" :> <<"d", "a", "l">>)
    @@ ("sambar" :> <<"s", "a", "m", "b", "a", "r">>)
    @@ ("biryani" :> <<"b", "i", "r", "y", "a", "n", "i">>)
    @@ ("curry" :> <<"c", "u", "r", "r", "y">>)
    @@ ("meal" :> <<"m", "e", "a", "l">>)
    @@ ("coffee" :> <<"c", "o", "f", "f", "e", "e">>)
    @@ ("tea" :> <<"t", "e", "a">>)
    @@ ("" :> <<>>)
    @@ ("Masala Dosa" :> <<"M", "a", "s", "a", "l", "a", " ", "D", "o", "s", "a">>)
    @@ ("Idli" :> <<"I", "d", "l", "i">>)
    @@ ("Parotta" :> <<"P", "a", "r", "o", "t", "t", "a">>)
    @@ ("Laptop" :> <<"L", "a", "p", "t", "o", "p">>)
    @@ ("Kaju Curry" :> <<"K", "a", "j", "u", " ", "C", "u", "r", "r", "y">>)
    @@ ("Water" :> <<"W", "a", "t", "e", "r">>)
    @@ ("Black Tea" :> <<"B", "l", "a", "c", "k", " ", "T", "e", "a">>)
    @@ ("CURD" :> <<"C", "U", "R", "D">>)
    @@ ("Soap" :> <<"S", "o", "a", "p">>)
    @@ ("a_d" :> <<"a", "_", "d">>)
    @@ ("%" :> <<"%">>)
    @@ ("Milk Crackers" :> <<"M", "i", "l", "k", " ", "C", "r", "a", "c", "k", "e", "r", "s">>)
    @@ ("Cough Syrup" :> <<"C", "o", "u", "g", "h", " ", "S", "y", "r", "u", "p">>)
    @@ ("Cheese and curd" :> <<"C", "h", "e", "e", "s", "e", " ", "a", "n", "d", " ", "c", "u", "r", "d">>)
    @@ ("Dairy products" :> <<"D", "a", "i", "r", "y", " ", "p", "r", "o", "d", "u", "c", "t", "s">>)
    @@ ("Shampoo, hair oil" :> <<"S", "h", "a", "m", "p", "o", "o", ",", " ", "h", "a", "i", "r", " ", "o", "i", "l">>)
    @@ ("Hair care products" :> <<"H", "a", "i", "r", " ", "c", "a", "r", "e", " ", "p", "r", "o", "d", "u", "c", "t", "s">>)
    @@ ("Restaurant" :> <<"R", "e", "s", "t", "a", "u", "r", "a", "n", "t">>)
    @@ ("Toilet soap, washing soap" :> <<"T", "o", "i", "l", "e", "t", " ", "s", "o", "a", "p", ",", " ", "w", "a", "s", "h", "i", "n", "g", " ", "s", "o", "a", "p">>)
    @@ ("Soaps" :> <<"S", "o", "a", "p", "s">>)
    @@ ("Pulses (Dal - Dried leguminous vegetables)" :> <<"P", "u", "l", "s", "e", "s", " ", "(", "D", "a", "l", " ", "-", " ", "D", "r", "i", "e", "d", " ", "l", "e", "g", "u", "m", "i", "n", "o", "u", "s", " ", "v", "e", "g", "e", "t", "a", "b", "l", "e", "s", ")">>)
    @@ ("Food grains" :> <<"F", "o", "o", "d", " ", "g", "r", "a", "i", "n", "s">>)
    @@ ("Wheat flour products (Roti, Parotta, Chapati)" :> <<"W", "h", "e", "a", "t", " ", "f", "l", "o", "u", "r", " ", "p", "r", "o", "d", "u", "c", "t", "s", " ", "(", "R", "o", "t", "i", ",", " ", "P", "a", "r", "o", "t", "t", "a", ",", " ", "C", "h", "a", "p", "a", "t", "i", ")">>)
    @@ ("Restaurant food" :> <<"R", "e", "s", "t", "a", "u", "r", "a", "n", "t", " ", "f", "o", "o", "d">>)
    @@ ("Restaurant services" :> <<"R", "e", "s", "t", "a", "u", "r", "a", "n", "t", " ", "s", "e", "r", "v", "i", "c", "e", "s">>)
    @@ ("Food items (fresh)" :> <<"F", "o", "o", "d", " ", "i", "t", "e", "m", "s", " ", "(", "f", "r", "e", "s", "h", ")">>)

Chars(s) == CharsTable[s]

UpperCase == <<"A", "B", "C", "D", "E", "F", "G", "H", "I", "J", "K", "L", "M",
               "N", "O", "P", "Q", "R", "S", "T", "U", "V", "W", "X", "Y", "Z">>

LowerCase == <<"a", "b", "c", "d", "e", "f", "g", "h", "i", "j", "k", "l", "m",
               "n", "o", "p", "q", "r", "s", "t", "u", "v", "w", "x", "y", "z">>

\* str.lower() / SQL LOWER() on one character.
LowerChar(c) ==
    IF \E i \in 1..Len(UpperCase) : UpperCase[i] = c
    THEN LowerCase[CHOOSE i \in 1..Len(UpperCase) : UpperCase[i] = c]
    ELSE c

\* str.lower() / SQL LOWER() on a sequence of characters.
Lower(cs) == [i \in 1..Len(cs) |-> LowerChar(cs[i])]

\* Python's `needle in hay` on sequences of characters.
Contains(hay, needle) ==
    \E i \in 0..(Len(hay) - Len(needle)) :
        \A j \in 1..Len(needle) : hay[i + j] = needle[j]

\* SQL `text LIKE pat`: % matches any run of characters, _ any one character.
RECURSIVE LikeMatch(_, _)
LikeMatch(pat, text) ==
    IF pat = <<>> THEN text = <<>>
    ELSE IF Head(pat) = "%"
         THEN LikeMatch(Tail(pat), text)
              \/ (text # <<>> /\ LikeMatch(pat, Tail(text)))
    ELSE IF text = <<>> THEN FALSE
    ELSE (Head(pat) = "_" \/ Head(pat) = Head(text))
         /\ LikeMatch(Tail(pat), Tail(text))

\* A column value that must equal the lowered item name: no wildcards around it.
ColumnEquals(column, item_name) ==
    /\ column # None
    /\ Lower(Chars(column)) = Lower(Chars(item_name))

\* A column value against the pattern '%<lowered item name>%'; NULL LIKE x is NULL.
ColumnLike(column, item_name) ==
    /\ column # None
    /\ LikeMatch(<<"%">> \o Lower(Chars(item_name)) \o <<"%">>, Lower(Chars(column)))

----------------------------------------------------------------------------
\* RateResolver: GeminiGSTAnalyzer.get_correct_gst_rate

dry_fruits_keywords ==
    <<"cashew", "almond", "walnut", "dates", "raisin", "pistachio",
      "badam", "kaju", "pista", "kishmish", "anjeer", "fig",
      "mixed nuts", "mixed bites", "dry fruit">>

electronics_keywords ==
    <<"mobile", "phone", "laptop", "computer", "charger", "earphone",
      "headphone", "tv", "television", "ac", "refrigerator", "washing machine">>

medical_keywords ==
    <<"medicine", "tablet", "syrup", "injection", "capsule",
      "test", "pathology", "xray", "scan">>

food_items_0_percent ==
    <<"parotta", "chapati", "roti", "bread", "milk", "curd",
      "vegetables", "fruits", "eggs">>

food_items_5_percent ==
    <<"dosa", "idli", "vada", "rice", "dal", "sambar",
      "biryani", "curry", "meal", "coffee", "tea">>

Rate(gst_rate, hsn_code, category) ==
    [gst_rate |-> gst_rate, hsn_code |-> hsn_code, category |-> category]

\* `for keyword in keywords: if keyword in item_lower`
AnyKeyword(keywords, item_lower) ==
    \E i \in 1..Len(keywords) : Contains(item_lower, Chars(keywords[i]))

\* The cascade with the two food tables tested first.
KeywordRateFoodFirst(item_name) ==
    LET item_lower == Lower(Chars(item_name)) IN
    IF AnyKeyword(food_items_0_percent, item_lower)
        THEN Rate(0, None, "Food items (fresh)")
    ELSE IF AnyKeyword(food_items_5_percent, item_lower)
        THEN Rate(5, None, "Restaurant services")
    ELSE IF AnyKeyword(dry_fruits_keywords, item_lower)
        THEN Rate(5, "08013200", "Dry fruits and nuts")
    ELSE IF AnyKeyword(electronics_keywords, item_lower)
        THEN Rate(18, None, "Electronics")
    ELSE IF AnyKeyword(medical_keywords, item_lower)
        THEN Rate(12, None, "Medical supplies")
    ELSE Rate(5, None, "Unknown (default 5%)")

\* The keyword cascade and the default, lines 302-343.
KeywordRate(item_name) ==
    LET item_lower == Lower(Chars(item_name)) IN
    IF AnyKeyword(dry_fruits_keywords, item_lower)
        THEN Rate(5, "08013200", "Dry fruits and nuts")
    ELSE IF AnyKeyword(electronics_keywords, item_lower)
        THEN Rate(18, None, "Electronics")
    ELSE IF AnyKeyword(medical_keywords, item_lower)
        THEN Rate(12, None, "Medical supplies")
    ELSE IF AnyKeyword(food_items_0_percent, item_lower)
        THEN Rate(0, None, "Food items (fresh)")
    ELSE IF AnyKeyword(food_items_5_percent, item_lower)
        THEN Rate(5, None, "Restaurant services")
    ELSE Rate(5, None, "Unknown (default 5%)")

\* The row test of the SELECT ... WHERE clause, lines 289-294.
RowMatches(row, item_name) ==
    \/ ColumnLike(row.item_name, item_name)
    \/ ColumnLike(row.item_category, item_name)

\* `except Exception`: the fallback of a failed lookup, lines 345-348.
LookupFailed == Rate(5, None, "Unknown")

\* The database after a lookup that wrote a row back for the next one.
DbAfterCachingLookup(d) ==
    IF d.ok
    THEN [d EXCEPT !.rows = <<[item_name |-> "Parotta", item_category |-> None,
                                gst_rate |-> 5, hsn_code |-> None]>> \o @]
    ELSE d

\* The database after the lookups of a call, lines 285-297: connect, one SELECT,
\* close; nothing is written.
DbAfterLookup(d) == d

\* get_correct_gst_rate against database d = [ok, rows]: d.ok is FALSE when
\* sqlite3.connect or cursor.execute raises; rows is gst_items in rowid order.
get_correct_gst_rate(item_name, d) ==
    IF ~d.ok THEN LookupFailed
    ELSE LET hits == {i \in 1..Len(d.rows) : RowMatches(d.rows[i], item_name)} IN
         IF hits # {}
         THEN LET result == d.rows[CHOOSE i \in hits : \A j \in hits : i <= j] IN
              Rate(result.gst_rate, result.hsn_code, result.item_category)
         ELSE KeywordRate(item_name)

----------------------------------------------------------------------------
\* Numbers

Abs(x) == IF x < 0 THEN -x ELSE x

Min(a, b) == IF a <= b THEN a ELSE b

Max(a, b) == IF a >= b THEN a ELSE b

RECURSIVE GCD(_, _)
GCD(a, b) == IF b = 0 THEN a ELSE GCD(b, a % b)

\* The integer nearest to num / den (den > 0), ties to the even integer.
RoundHalfEven(num, den) ==
    LET q == num \div den
        r == num % den
    IN  IF 2 * r < den THEN q
        ELSE IF 2 * r > den THEN q + 1
        ELSE IF q % 2 = 0 THEN q ELSE q + 1

\* Python round(x, 2) of x = num / den mills (den # 0): a whole number of paise.
Round2(num, den) ==
    IF den < 0 THEN 10 * RoundHalfEven(-num, -den * 10)
    ELSE 10 * RoundHalfEven(num, den * 10)

\* a * b / c as a fraction in lowest terms <<numerator, denominator>>, c # 0.
MulDiv(a, b, c) ==
    LET g1 == GCD(Abs(b), Abs(c))
        b1 == b \div g1
        c1 == c \div g1
        g2 == GCD(Abs(a), Abs(c1))
    IN  <<(a \div g2) * b1, c1 \div g2>>

----------------------------------------------------------------------------
\* WeightedTaxCalculator: GeminiGSTAnalyzer.calculate_correct_gst

\* A BillLineItem attribute that is None is a key that is absent.
IsNone(item, attr) == attr \notin DOMAIN item

\* sum(item.total_price for item in items)
RECURSIVE SumTotalPrice(_)
SumTotalPrice(items) ==
    IF items = <<>> THEN 0
    ELSE Head(items).total_price + SumTotalPrice(Tail(items))

\* The loop of lines 429-433 times total_item_amount:
\* sum of gst_rate * total_price over the items whose gst_rate is not None.
RECURSIVE SumRateTimesPrice(_)
SumRateTimesPrice(items) ==
    IF items = <<>> THEN 0
    ELSE (IF IsNone(Head(items), "gst_rate") THEN 0
          ELSE Head(items).gst_rate * Head(items).total_price)
         + SumRateTimesPrice(Tail(items))

Gst(total_gst, cgst, sgst) == [total_gst |-> total_gst, cgst |-> cgst, sgst |-> sgst]

\* Rounding total_gst before it is halved.
RoundBeforeHalving(num, den) ==
    Gst(Round2(num, den), Round2(Round2(num, den), 2), Round2(Round2(num, den), 2))

\* sgst as what is left of the rounded total after the rounded cgst.
RoundWithRemainder(num, den) ==
    Gst(Round2(num, den), Round2(num, 2 * den), Round2(num, den) - Round2(num, 2 * den))

\* The rounding at return, line 442: total_gst = num / den, cgst = sgst = total_gst / 2.
RoundAtReturn(num, den) ==
    Gst(Round2(num, den), Round2(num, 2 * den), Round2(num, 2 * den))

\* sum(item.gst_rate for item in items if item.gst_rate is not None)
RECURSIVE SumRates(_)
SumRates(items) ==
    IF items = <<>> THEN 0
    ELSE (IF IsNone(Head(items), "gst_rate") THEN 0 ELSE Head(items).gst_rate)
         + SumRates(Tail(items))

\* The plain mean of the item rates applied to the subtotal: every item weighs the same.
calculate_gst_unweighted(items, subtotal_after_discount) ==
    IF SumTotalPrice(items) = 0 THEN Gst(0, 0, 0)
    ELSE RoundAtReturn(subtotal_after_discount * SumRates(items), 100 * Len(items))

\* The tax on the item total, whatever the subtotal after discount.
calculate_gst_before_discount(items, subtotal_after_discount) ==
    IF SumTotalPrice(items) = 0 THEN Gst(0, 0, 0)
    ELSE RoundAtReturn(SumRateTimesPrice(items), 100)

calculate_correct_gst(items, subtotal_after_discount) ==
    LET total_item_amount == SumTotalPrice(items) IN
    IF total_item_amount = 0 THEN Gst(0, 0, 0)
    ELSE LET total_gst == MulDiv(subtotal_after_discount,
                                 SumRateTimesPrice(items),
                                 total_item_amount * 100)
         IN  RoundAtReturn(total_gst[1], total_gst[2])

----------------------------------------------------------------------------
\* ConsistencyValidator: GeminiGSTAnalyzer.validate_extraction

\* dict.get(key, default)
Get(dict, key, default) == IF key \in DOMAIN dict THEN dict[key] ELSE default

\* A test for None only: the empty string counts as a value.
IsNoneOnly(v) == v = None

\* Python truthiness of an optional string: None and '' are falsy.
Falsy(v) == v = None \/ v = ""

\* f"{x:.2f}" of x mills: the value shown, in mills.
Fmt2(x) == Round2(x, 1)

\* f"{x:.1f}" of the percentage x = 100 * num / den, in tenths of a percent.
Fmt1Percent(num, den) ==
    IF den < 0 THEN RoundHalfEven(-num * 1000, -den)
    ELSE RoundHalfEven(num * 1000, den)

Warning(kind, a, b) == [kind |-> kind, a |-> a, b |-> b]

valid_gst_rates == <<0, 5, 12, 18, 28>>

\* sum(item.total_price for item in items if item.gst_rate)
RECURSIVE SumRatedTotalPrice(_)
SumRatedTotalPrice(items) ==
    IF items = <<>> THEN 0
    ELSE (IF IsNone(Head(items), "gst_rate") \/ Head(items).gst_rate = 0 THEN 0
          ELSE Head(items).total_price)
         + SumRatedTotalPrice(Tail(items))

\* Check 1 summing only the items that carry a non-zero rate.
ItemsSumCheckRatedOnly(gross_amount, items) ==
    Abs(SumRatedTotalPrice(items) - gross_amount) > 1000

\* Check 1 firing from a difference of exactly 1.0 on.
ItemsSumCheckInclusive(gross_amount, items) ==
    Abs(SumTotalPrice(items) - gross_amount) >= 1000

\* Check 1, lines 365-369.
ItemsSumCheck(gross_amount, items) ==
    Abs(SumTotalPrice(items) - gross_amount) > 1000

\* Check 2 with the wider tolerance from a discount of exactly 100 on.
DiscountCheckFromHundred(gross_amount, discount, subtotal) ==
    LET expected_subtotal == gross_amount - discount
        tolerance == IF discount >= 100000 THEN 30000 ELSE 1000
    IN  IF Abs(expected_subtotal - subtotal) > tolerance THEN "hard"
        ELSE IF Abs(expected_subtotal - subtotal) > 1000 THEN "soft"
        ELSE "ok"

\* Check 2, lines 371-381: "hard", "soft" or "ok".
DiscountCheck(gross_amount, discount, subtotal) ==
    LET expected_subtotal == gross_amount - discount
        tolerance == IF discount > 100000 THEN 30000 ELSE 1000
    IN  IF Abs(expected_subtotal - subtotal) > tolerance THEN "hard"
        ELSE IF Abs(expected_subtotal - subtotal) > 1000 THEN "soft"
        ELSE "ok"

\* Check 3 with the tax left out of the sum.
FinalTotalsCheckWithoutTax(subtotal, total_gst, grand_total) ==
    Abs(subtotal - grand_total) > 1000

\* Check 3, lines 383-387.
FinalTotalsCheck(subtotal, total_gst, grand_total) ==
    Abs(subtotal + total_gst - grand_total) > 1000

\* Check 4, lines 389-396: abs(total_gst / subtotal * 100 - rate) < 0.5 for no rate.
GstRateCheck(subtotal, total_gst) ==
    /\ subtotal > 0
    /\ ~ \E i \in 1..Len(valid_gst_rates) :
            Abs(200 * total_gst - 2 * valid_gst_rates[i] * subtotal) < subtotal

\* The clamp applied to the percentage print_analysis shows instead of the fraction.
ClampConfidencePercent(confidence) == Max(0, Min(100 * 100, confidence * 100))

\* `confidence = max(0.0, min(1.0, confidence))`, line 407, in hundredths.
ClampConfidence(confidence) == Max(0, Min(100, confidence))

validate_extraction(gemini_result, items) ==
    LET gross_amount == Get(gemini_result, "gross_amount", 0)
        discount     == Get(gemini_result, "discount", 0)
        subtotal     == Get(gemini_result, "subtotal", 0)
        total_gst    == Get(gemini_result, "total_gst_charged", 0)
        grand_total  == Get(gemini_result, "grand_total", 0)
        c1 == ItemsSumCheck(gross_amount, items)
        c2 == DiscountCheck(gross_amount, discount, subtotal)
        c3 == FinalTotalsCheck(subtotal, total_gst, grand_total)
        c4 == GstRateCheck(subtotal, total_gst)
        c5 == Falsy(Get(gemini_result, "store_name", None))
        c6 == Falsy(Get(gemini_result, "bill_number", None))
        w1 == IF c1 THEN <<Warning("ItemsSumNotGross",
                                   Fmt2(SumTotalPrice(items)), Fmt2(gross_amount))>>
              ELSE <<>>
        w2 == IF c2 = "hard"
              THEN <<Warning("GrossMinusDiscountNotSubtotal",
                             Fmt2(gross_amount - discount), Fmt2(subtotal))>>
              ELSE IF c2 = "soft"
              THEN <<Warning("MinorRoundingDifference",
                             Fmt2(gross_amount - discount), Fmt2(subtotal))>>
              ELSE <<>>
        w3 == IF c3 THEN <<Warning("SubtotalPlusGstNotGrandTotal",
                                   Fmt2(subtotal + total_gst), Fmt2(grand_total))>>
              ELSE <<>>
        w4 == IF c4 THEN <<Warning("UnusualGstRate", Fmt1Percent(total_gst, subtotal), 0)>>
              ELSE <<>>
        w5 == IF c5 THEN <<Warning("StoreNameNotFound", 0, 0)>> ELSE <<>>
        w6 == IF c6 THEN <<Warning("BillNumberNotFound", 0, 0)>> ELSE <<>>
        confidence == 100 - (IF c1 THEN 15 ELSE 0)
                          - (IF c2 = "hard" THEN 15 ELSE IF c2 = "soft" THEN 5 ELSE 0)
                          - (IF c3 THEN 20 ELSE 0)
                          - (IF c4 THEN 10 ELSE 0)
                          - (IF c5 THEN 5 ELSE 0)
                          - (IF c6 THEN 5 ELSE 0)
    IN  [confidence |-> ClampConfidence(confidence),
         warnings   |-> w1 \o w2 \o w3 \o w4 \o w5 \o w6]

----------------------------------------------------------------------------
\* LineItemNormalizer and DiscrepancyReporter: GeminiGSTAnalyzer.analyze_bill

\* x / 2 as a fraction in lowest terms.
Half(x) == IF x % 2 = 0 THEN <<x \div 2, 1>> ELSE <<x, 2>>

\* float(gemini_result.get(key, bill_gst/2)), lines 556-557, as a fraction.
GetOrHalf(dict, key, bill_gst) ==
    IF key \in DOMAIN dict THEN <<dict[key], 1>> ELSE Half(bill_gst)

\* The BillLineItem with total_price recomputed as quantity * unit_price.
LineItemRecomputed(item_data, rate) ==
    LET item_name   == Get(item_data, "item_name", "")
        total_price == Get(item_data, "quantity", 1) * Get(item_data, "unit_price", 0)
    IN  [item_name     |-> item_name,
         original_name |-> Get(item_data, "original_name", item_name),
         quantity      |-> Get(item_data, "quantity", 1),
         unit_price    |-> Get(item_data, "unit_price", 0),
         total_price   |-> total_price,
         hsn_code      |-> rate.hsn_code,
         gst_rate      |-> rate.gst_rate,
         cgst          |-> Round2(total_price * rate.gst_rate, 200),
         sgst          |-> Round2(total_price * rate.gst_rate, 200),
         category      |-> rate.category]

\* The BillLineItem with the whole item tax in cgst and in sgst.
LineItemUnsplit(item_data, rate) ==
    LET item_name   == Get(item_data, "item_name", "")
        total_price == Get(item_data, "total_price", 0)
    IN  [item_name     |-> item_name,
         original_name |-> Get(item_data, "original_name", item_name),
         quantity      |-> Get(item_data, "quantity", 1),
         unit_price    |-> Get(item_data, "unit_price", 0),
         total_price   |-> total_price,
         hsn_code      |-> rate.hsn_code,
         gst_rate      |-> rate.gst_rate,
         cgst          |-> Round2(total_price * rate.gst_rate, 100),
         sgst          |-> Round2(total_price * rate.gst_rate, 100),
         category      |-> rate.category]

\* Lines 489-506: the BillLineItem built from one extracted item and the rate found for it.
LineItemAtRate(item_data, rate) ==
    LET item_name   == Get(item_data, "item_name", "")
        total_price == Get(item_data, "total_price", 0)
    IN  [item_name     |-> item_name,
         original_name |-> Get(item_data, "original_name", item_name),
         quantity      |-> Get(item_data, "quantity", 1),
         unit_price    |-> Get(item_data, "unit_price", 0),
         total_price   |-> total_price,
         hsn_code      |-> rate.hsn_code,
         gst_rate      |-> rate.gst_rate,
         cgst          |-> Round2(total_price * rate.gst_rate, 200),
         sgst          |-> Round2(total_price * rate.gst_rate, 200),
         category      |-> rate.category]

\* Step 4, the body of the loop of lines 485-507: one BillLineItem.
BillLineItem(item_data, d) ==
    LineItemAtRate(item_data, get_correct_gst_rate(Get(item_data, "item_name", ""), d))

\* Step 4, lines 483-507: the items in input order.
NormalizeItems(raw_items, d) ==
    [i \in 1..Len(raw_items) |-> BillLineItem(raw_items[i], d)]

Detail(kind, a, b, item_name) == [kind |-> kind, a |-> a, b |-> b, item_name |-> item_name]

\* A note for every item, whatever its rate, when the bill charged tax.
ZeroRateNotesEveryItem(items, bill_gst) ==
    IF bill_gst > 0
    THEN [i \in 1..Len(items) |-> Detail("ShouldHaveZeroGst", 0, 0, items[i].item_name)]
    ELSE <<>>

\* A note per 0% item whenever the tax the bill states is not zero, negative included.
RECURSIVE ZeroRateNotesNonzeroTax(_, _)
ZeroRateNotesNonzeroTax(items, bill_gst) ==
    IF items = <<>> THEN <<>>
    ELSE (IF Head(items).gst_rate = 0 /\ bill_gst # 0
          THEN <<Detail("ShouldHaveZeroGst", 0, 0, Head(items).item_name)>>
          ELSE <<>>)
         \o ZeroRateNotesNonzeroTax(Tail(items), bill_gst)

\* Lines 534-539: one note per item with a 0% rate when the bill charged tax.
RECURSIVE ZeroRateNotes(_, _)
ZeroRateNotes(items, bill_gst) ==
    IF items = <<>> THEN <<>>
    ELSE (IF Head(items).gst_rate = 0 /\ bill_gst > 0
          THEN <<Detail("ShouldHaveZeroGst", 0, 0, Head(items).item_name)>>
          ELSE <<>>)
         \o ZeroRateNotes(Tail(items), bill_gst)

\* The two lines and the per-item notes written whether or not a discrepancy was found.
DiscrepancyDetailsAlways(has_discrepancy, discrepancy_amount, bill_gst, calculated_gst, items) ==
    <<Detail("BillChargedButShouldBe", bill_gst, calculated_gst, ""),
      Detail(IF discrepancy_amount > 0 THEN "OverchargedBy" ELSE "UnderchargedBy",
             Abs(discrepancy_amount), 0, "")>>
    \o ZeroRateNotes(items, bill_gst)

\* The directional line chosen with the sign reversed.
DiscrepancyDetailsReversed(has_discrepancy, discrepancy_amount, bill_gst, calculated_gst, items) ==
    IF has_discrepancy
    THEN <<Detail("BillChargedButShouldBe", bill_gst, calculated_gst, ""),
           Detail(IF discrepancy_amount < 0 THEN "OverchargedBy" ELSE "UnderchargedBy",
                  Abs(discrepancy_amount), 0, "")>>
         \o ZeroRateNotes(items, bill_gst)
    ELSE <<>>

\* Lines 524-539.
DiscrepancyDetails(has_discrepancy, discrepancy_amount, bill_gst, calculated_gst, items) ==
    IF has_discrepancy
    THEN <<Detail("BillChargedButShouldBe", bill_gst, calculated_gst, ""),
           Detail(IF discrepancy_amount > 0 THEN "OverchargedBy" ELSE "UnderchargedBy",
                  Abs(discrepancy_amount), 0, "")>>
         \o ZeroRateNotes(items, bill_gst)
    ELSE <<>>

\* The tolerance without abs(): undercharges are never found.
HasDiscrepancyOneSided(discrepancy_amount) == discrepancy_amount > 10

\* Line 522.
HasDiscrepancy(discrepancy_amount) == Abs(discrepancy_amount) > 10

\* Line 543: the note inserted at index 0; discount / gross_amount needs gross_amount # 0.
DiscountNote(discount, gross_amount) ==
    Detail("DiscountApplied", Fmt2(discount), Fmt1Percent(discount, gross_amount), "")

Raised(exc) == [status |-> "raised", exc |-> exc]

Returned(value) == [status |-> "returned", value |-> value]

\* The subtotal alone, the tax left out.
CalculatedTotalBeforeTax(subtotal, calculated_gst) == Round2(subtotal, 1)

\* Line 515: calculated_total = round(subtotal + calculated_gst, 2).
CalculatedTotal(subtotal, calculated_gst) == Round2(subtotal + calculated_gst, 1)

\* Steps 3 and 5 to 8, lines 478-571: the result built from the normalised items.
AnalysisOfItems(gemini_result, items) ==
    LET gross_amount == Get(gemini_result, "gross_amount", 0)
        discount     == Get(gemini_result, "discount", 0)
        subtotal     == Get(gemini_result, "subtotal", 0)
        validation   == validate_extraction(gemini_result, items)
        calculated   == calculate_correct_gst(items, subtotal)
        bill_gst     == Get(gemini_result, "total_gst_charged", 0)
        bill_total   == Get(gemini_result, "grand_total", 0)
        discrepancy_amount == Round2(bill_gst - calculated.total_gst, 1)
        has_discrepancy    == HasDiscrepancy(discrepancy_amount)
        discrepancy_details ==
            DiscrepancyDetails(has_discrepancy, discrepancy_amount, bill_gst,
                               calculated.total_gst, items)
    IN  IF discount > 0 /\ gross_amount = 0 THEN Raised("ZeroDivisionError")
        ELSE Returned(
          [bill_number           |-> Get(gemini_result, "bill_number", None),
           restaurant_name       |-> Get(gemini_result, "store_name", None),
           date                  |-> Get(gemini_result, "date", None),
           gstin                 |-> Get(gemini_result, "gstin", None),
           items                 |-> items,
           gross_amount          |-> gross_amount,
           discount              |-> discount,
           subtotal              |-> subtotal,
           total_gst_charged     |-> bill_gst,
           total_cgst_charged    |-> GetOrHalf(gemini_result, "cgst_charged", bill_gst),
           total_sgst_charged    |-> GetOrHalf(gemini_result, "sgst_charged", bill_gst),
           grand_total           |-> bill_total,
           calculated_total_gst  |-> calculated.total_gst,
           calculated_cgst       |-> calculated.cgst,
           calculated_sgst       |-> calculated.sgst,
           calculated_grand_total |-> CalculatedTotal(subtotal, calculated.total_gst),
           has_discrepancy       |-> has_discrepancy,
           discrepancy_amount    |-> discrepancy_amount,
           discrepancy_details   |->
               IF discount > 0
               THEN <<DiscountNote(discount, gross_amount)>> \o discrepancy_details
               ELSE discrepancy_details,
           confidence_score      |-> validation.confidence,
           warnings              |-> validation.warnings])

\* analyze_bill from Step 3 on: gemini_result is what analyze_bill_with_gemini returned.
analyze_bill(gemini_result, d) ==
    AnalysisOfItems(gemini_result, NormalizeItems(Get(gemini_result, "items", <<>>), d))

----------------------------------------------------------------------------
\* BillAnalysisResult.to_dict and GeminiGSTAnalyzer.print_analysis

to_dict(self) ==
    [bill_number     |-> self.bill_number,
     restaurant_name |-> self.restaurant_name,
     date            |-> self.date,
     gstin           |-> self.gstin,
     items           |-> self.items,
     gross_amount    |-> self.gross_amount,
     discount        |-> self.discount,
     subtotal        |-> self.subtotal,
     bill_charges    |-> [total_gst   |-> self.total_gst_charged,
                          cgst        |-> self.total_cgst_charged,
                          sgst        |-> self.total_sgst_charged,
                          grand_total |-> self.grand_total],
     correct_calculation |-> [total_gst   |-> self.calculated_total_gst,
                              cgst        |-> self.calculated_cgst,
                              sgst        |-> self.calculated_sgst,
                              grand_total |-> self.calculated_grand_total],
     discrepancy     |-> [found   |-> self.has_discrepancy,
                          amount  |-> self.discrepancy_amount,
                          details |-> self.discrepancy_details],
     confidence_score |-> self.confidence_score,
     warnings        |-> self.warnings]

Line(kind, a, b, text) == [kind |-> kind, a |-> a, b |-> b, text |-> text]

\* Lines 579-586: the identity lines that are printed.
IdentityLines(result) ==
    (IF Falsy(result.restaurant_name) THEN <<>>
     ELSE <<Line("Business", 0, 0, result.restaurant_name)>>)
    \o (IF Falsy(result.gstin) THEN <<>> ELSE <<Line("GSTIN", 0, 0, result.gstin)>>)
    \o (IF Falsy(result.bill_number) THEN <<>>
        ELSE <<Line("BillNumber", 0, 0, result.bill_number)>>)
    \o (IF Falsy(result.date) THEN <<>> ELSE <<Line("Date", 0, 0, result.date)>>)

\* Lines 588-591: confidence in percent with its colour.
ConfidenceLine(result) ==
    LET confidence_pct == result.confidence_score IN
    Line(IF confidence_pct >= 90 THEN "ConfidenceGreen"
         ELSE IF confidence_pct >= 70 THEN "ConfidenceYellow" ELSE "ConfidenceRed",
         confidence_pct, 0, "")

\* Lines 593-597.
WarningLines(result) ==
    IF result.warnings = <<>> THEN <<>>
    ELSE <<Line("ValidationWarnings", 0, 0, "")>>
         \o [i \in 1..Len(result.warnings) |->
                Line(result.warnings[i].kind, result.warnings[i].a, result.warnings[i].b, "")]

\* Lines 599-606.
ItemLines(result) ==
    [i \in 1..Len(result.items) |->
        Line("Item", Fmt2(result.items[i].total_price), result.items[i].gst_rate,
             result.items[i].item_name)]

\* Lines 607-614.
AmountLines(result) ==
    <<Line("GrossAmount", Fmt2(result.gross_amount), 0, "")>>
    \o (IF result.discount > 0
        THEN <<Line("Discount", Fmt2(result.discount),
                    IF result.gross_amount > 0
                    THEN Fmt1Percent(result.discount, result.gross_amount) ELSE 0, "")>>
        ELSE <<>>)
    \o <<Line("Subtotal", Fmt2(result.subtotal), 0, ""),
         Line("GstBillCharged", Fmt2(result.total_gst_charged), 0, ""),
         Line("GstCorrect", Fmt2(result.calculated_total_gst), 0, ""),
         Line("GrandTotalBill", Fmt2(result.grand_total), 0, "")>>

\* Lines 616-622.
DiscrepancyLines(result) ==
    IF result.has_discrepancy
    THEN <<Line("DiscrepancyDetected", 0, 0, ""),
           Line("Difference", Fmt2(Abs(result.discrepancy_amount)), 0, "")>>
         \o [i \in 1..Len(result.discrepancy_details) |->
                Line(result.discrepancy_details[i].kind, result.discrepancy_details[i].a,
                     result.discrepancy_details[i].b, result.discrepancy_details[i].item_name)]
    ELSE <<Line("BillGstIsCorrect", 0, 0, "")>>

\* Lines 624-627: the legal readiness warning.
LegalWarningLines(result) ==
    IF result.confidence_score < 90
    THEN <<Line("NotRecommendedForLegalDisputes", 0, 0, ""),
           Line("VerifyManually", 0, 0, "")>>
    ELSE <<>>

print_analysis(result) ==
    <<Line("Header", 0, 0, "")>>
    \o IdentityLines(result) \o <<ConfidenceLine(result)>> \o WarningLines(result)
    \o ItemLines(result) \o AmountLines(result) \o DiscrepancyLines(result)
    \o LegalWarningLines(result)
    \o <<Line("Footer", 0, 0, "")>>

----------------------------------------------------------------------------
\* The per-item analyzer of gst_bill_analyzer_llm.py

\* Lines 295-297 and 310: sum(item.cgst or 0 for item in items) with
\* item.cgst = (total_price * gst_rate / 100) / 2, as a number of 1/200 mills.
RECURSIVE SumItemCgst(_)
SumItemCgst(items) ==
    IF items = <<>> THEN 0
    ELSE Head(items).total_price * Head(items).gst_rate + SumItemCgst(Tail(items))

\* Lines 310-312: calculated_gst = calculated_cgst + calculated_sgst, in mills, as a
\* fraction <<numerator, denominator>>; sgst is set to the same amount as cgst.
calculated_gst_per_item(items) == <<SumItemCgst(items) + SumItemCgst(items), 200>>

----------------------------------------------------------------------------
\* Inputs

\* The longest item list of a bill.
MaxItems == 3

Row(item_name, item_category, gst_rate, hsn_code) ==
    [item_name |-> item_name, item_category |-> item_category,
     gst_rate |-> gst_rate, hsn_code |-> hsn_code]

\* Rows as populate_hsn_codes.py inserts them.
CatalogSeed ==
    <<Row("Cheese and curd", "Dairy products", 5, "0406"),
      Row("Shampoo, hair oil", "Hair care products", 18, "3305"),
      Row("Toilet soap, washing soap", "Soaps", 18, "3401"),
      Row("Pulses (Dal - Dried leguminous vegetables)", "Food grains", 5, "0713"),
      Row("Wheat flour products (Roti, Parotta, Chapati)", "Restaurant food", 5, "1101")>>

\* A catalog that lists the dishes of a restaurant bill by name.
CatalogRestaurant ==
    <<Row("Masala Dosa", "Restaurant services", 5, "996331"),
      Row("Idli", "Restaurant services", 5, "996331"),
      Row("Parotta", "Food items (fresh)", 0, None)>>

\* Rows the schema admits (gst_rate REAL NOT NULL, no CHECK) with rates outside 0..100.
CatalogMalformed ==
    <<Row("Idli", None, -5, None),
      Row("Masala Dosa", "Restaurant", 105, "9963")>>

DbUnavailable == [ok |-> FALSE, rows |-> <<>>]

Databases ==
    {DbUnavailable}
    \cup {[ok |-> TRUE, rows |-> r] :
            r \in {<<>>, CatalogSeed, CatalogRestaurant, CatalogMalformed}}

\* The catalogs whole bills are analysed against: the short ones.
BillDatabases == {d \in Databases : Len(d.rows) <= Len(CatalogRestaurant)}

ItemNames ==
    {"", "Masala Dosa", "Idli", "Parotta", "Laptop", "Kaju Curry", "Water",
     "Black Tea", "CURD", "Soap", "a_d", "%", "Milk Crackers", "Cough Syrup"}

\* The sequences of at most n elements of S, and those without repetition.
SeqsUpTo(S, n) == UNION {[1..k -> S] : k \in 0..n}

DistinctSeqsUpTo(S, n) ==
    {q \in SeqsUpTo(S, n) : \A i, j \in 1..Len(q) : i # j => q[i] # q[j]}

\* Raw item dicts as the extractor returns them; fields may be missing.
RawItemPool ==
    {[item_name |-> "Masala Dosa", original_name |-> "Masala Dosa x2",
      quantity |-> 2, unit_price |-> 60000, total_price |-> 120000],
     [item_name |-> "Idli", total_price |-> 50000],
     [item_name |-> "Parotta", quantity |-> 3, unit_price |-> 25000, total_price |-> 60000],
     [original_name |-> "???"]}

RawItemLists == DistinctSeqsUpTo(RawItemPool, MaxItems)

\* BillLineItems for direct calls of calculate_correct_gst and validate_extraction.
LineItem(total_price, rate) ==
    [item_name |-> "Idli", original_name |-> "Idli", quantity |-> 1,
     unit_price |-> total_price, total_price |-> total_price,
     hsn_code |-> None, cgst |-> 0, sgst |-> 0, category |-> None] @@ rate

LineItemPool ==
    {LineItem(120000, [gst_rate |-> 5]), LineItem(50000, [gst_rate |-> 5]),
     LineItem(60000, [gst_rate |-> 0]), LineItem(100000, [gst_rate |-> 18]),
     LineItem(0, [gst_rate |-> 12]), LineItem(70000, <<>>),
     LineItem(-50000, [gst_rate |-> 5])}

LineItemLists == SeqsUpTo(LineItemPool, MaxItems)

Subtotals == {0, 100, 300, 99990, 207000, 220000, 230000}

ResolveCalls ==
    {[op |-> "get_correct_gst_rate", item_name |-> n] : n \in ItemNames}

CalculateCalls ==
    {[op |-> "calculate_correct_gst", items |-> i, subtotal_after_discount |-> s] :
        i \in LineItemLists, s \in Subtotals}

\* A choice c = <<present, value>> of a field: the dict with or without key k.
Field(k, c) == IF c[1] THEN [x \in {k} |-> c[2]] ELSE <<>>

Absent == <<FALSE, 0>>

Present(V) == {<<TRUE, v>> : v \in V}

\* The value dict.get(k, 0) gives for the choice c.
Value(c) == IF c[1] THEN c[2] ELSE 0

\* Identity fields: both, either or none present, or an empty store name.
Identities ==
    {[store_name |-> "Saravana Bhavan", bill_number |-> "12345", date |-> "16-Nov-2025"],
     [store_name |-> "", bill_number |-> "12345", gstin |-> None],
     [store_name |-> "Saravana Bhavan"],
     <<>>}

\* A raw bill around the arithmetic identities validate_extraction checks: gross is
\* the item sum plus dg, subtotal is gross - discount plus ds, the tax charged is
\* rate/1000 of the subtotal and the grand total is subtotal + tax plus dt.
BillAround(item_sum, dg, discount, ds, rate, dt, identity) ==
    LET gross    == IF dg[1] THEN <<TRUE, item_sum + dg[2]>> ELSE Absent
        subtotal == IF ds[1] THEN <<TRUE, Value(gross) - Value(discount) + ds[2]>> ELSE Absent
        gst      == IF rate[1] THEN <<TRUE, (Value(subtotal) * rate[2]) \div 1000>> ELSE Absent
        grand    == IF dt[1] THEN <<TRUE, Value(subtotal) + Value(gst) + dt[2]>> ELSE Absent
    IN  Field("gross_amount", gross) @@ Field("discount", discount)
        @@ Field("subtotal", subtotal) @@ Field("total_gst_charged", gst)
        @@ Field("grand_total", grand) @@ identity

ValidateItemLists ==
    {<<>>,
     <<LineItem(120000, [gst_rate |-> 5]), LineItem(50000, [gst_rate |-> 5]),
       LineItem(60000, [gst_rate |-> 0])>>}

ValidateCalls ==
    {[op |-> "validate_extraction",
      gemini_result |-> BillAround(SumTotalPrice(i), dg, d, ds, r, dt, id),
      items |-> i] :
        i \in ValidateItemLists,
        dg \in {Absent} \cup Present({0, 1000, 1001}),
        d \in {Absent} \cup Present({100000, 150000}),
        ds \in {Absent} \cup Present({0, 1000, 1001, 30000, 30001}),
        r \in {Absent} \cup Present({50, 55, 80}),
        dt \in {Absent} \cup Present({0, 1000, 1001}),
        id \in Identities}

\* Tax amounts a bill may state: none, zero, one and two paise either way, a
\* fraction of a paisa, and amounts around the tax of the sample bill.
ChargedChoices ==
    {Absent} \cup Present({0, 10, -10, 20, -20, 8500, 8510, 8514, 11500})

\* <<gross_amount, discount>>: neither stated, a gross amount without discount, a
\* 25-rupee discount, and a discount stated on a bill whose gross amount is missing
\* or zero.
GrossAndDiscount ==
    {<<Absent, Absent>>, <<<<TRUE, 230000>>, Absent>>,
     <<<<TRUE, 255000>>, <<TRUE, 25000>>>>,
     <<Absent, <<TRUE, 25000>>>>, <<<<TRUE, 0>>, <<TRUE, 25000>>>>}

RawBill(items, subtotal, charged, gd, identity) ==
    Field("items", items) @@ Field("subtotal", subtotal)
    @@ Field("total_gst_charged", charged)
    @@ Field("gross_amount", gd[1]) @@ Field("discount", gd[2])
    @@ (IF identity = <<>> THEN <<>>
        ELSE Field("grand_total", <<TRUE, Value(subtotal) + Value(charged)>>)
             @@ Field("cgst_charged", <<TRUE, Value(charged) \div 2>>))
    @@ identity

AnalyzeCalls ==
    {[op |-> "analyze_bill", gemini_result |-> RawBill(i, s, c, gd, id)] :
        i \in {<<FALSE, <<>>>>} \cup Present(RawItemLists),
        s \in {Absent} \cup Present({230000}),
        c \in ChargedChoices,
        gd \in GrossAndDiscount,
        id \in {[store_name |-> "Saravana Bhavan", bill_number |-> "12345"], <<>>}}

----------------------------------------------------------------------------
\* The state machine: a call is pending (pc = "called"), then it has returned or
\* raised; the result of analyze_bill is then printed and saved by the caller.

NoReturn == [status |-> "none"]

NotSaved == [written |-> FALSE]

Init ==
    /\ \/ /\ call \in ResolveCalls
          /\ db \in Databases
       \/ /\ call \in AnalyzeCalls
          /\ db \in BillDatabases
       \/ /\ call \in CalculateCalls \cup ValidateCalls
          /\ db = DbUnavailable
    /\ pc = "called"
    /\ ret = NoReturn
    /\ saved = NotSaved
    /\ printed = <<>>
    /\ first = NoReturn

GetCorrectGstRate ==
    /\ pc = "called" /\ call.op = "get_correct_gst_rate"
    /\ ret' = Returned(get_correct_gst_rate(call.item_name, db))
    /\ db' = DbAfterLookup(db)
    /\ pc' = "returned"
    /\ UNCHANGED <<call, saved, printed, first>>

CalculateCorrectGst ==
    /\ pc = "called" /\ call.op = "calculate_correct_gst"
    /\ ret' = Returned(calculate_correct_gst(call.items, call.subtotal_after_discount))
    /\ pc' = "returned"
    /\ UNCHANGED <<db, call, saved, printed, first>>

ValidateExtraction ==
    /\ pc = "called" /\ call.op = "validate_extraction"
    /\ ret' = Returned(validate_extraction(call.gemini_result, call.items))
    /\ pc' = "returned"
    /\ UNCHANGED <<db, call, saved, printed, first>>

AnalyzeBill ==
    /\ pc = "called" /\ call.op = "analyze_bill"
    /\ ret' = analyze_bill(call.gemini_result, db)
    /\ db' = DbAfterLookup(db)
    /\ pc' = ret'.status
    /\ UNCHANGED <<call, saved, printed, first>>

\* A second request with the same bill once the first is answered, gst_api_service.py
\* lines 775-776: a new analyzer on the same database file; the outcome of the first
\* run is kept in `first`.
AnalyzeAgain ==
    /\ pc \in {"raised", "reported"} /\ call.op = "analyze_bill"
    /\ first = NoReturn
    /\ first' = ret
    /\ ret' = analyze_bill(call.gemini_result, db)
    /\ db' = DbAfterLookup(db)
    /\ pc' = ret'.status
    /\ UNCHANGED <<call, saved, printed>>

\* The caller's report, lines 661-666: print_analysis, then json.dump(result.to_dict()).
Report ==
    /\ pc = "returned" /\ call.op = "analyze_bill"
    /\ printed' = print_analysis(ret.value)
    /\ saved' = [written |-> TRUE, json |-> to_dict(ret.value)]
    /\ pc' = "reported"
    /\ UNCHANGED <<db, call, ret, first>>

Next ==
    \/ GetCorrectGstRate
    \/ CalculateCorrectGst
    \/ ValidateExtraction
    \/ AnalyzeBill
    \/ Report
    \/ AnalyzeAgain

Spec == Init /\ [][Next]_vars

----------------------------------------------------------------------------
\* Properties

\* The sum f[1] + ... + f[n].
RECURSIVE SumTo(_, _)
SumTo(f, n) == IF n = 0 THEN 0 ELSE f[n] + SumTo(f, n - 1)

Calculated == call.op = "calculate_correct_gst" /\ pc = "returned"

Resolved == call.op = "get_correct_gst_rate" /\ pc = "returned"

Validated == call.op = "validate_extraction" /\ pc = "returned"

Analysed == call.op = "analyze_bill" /\ pc \in {"returned", "reported"}

AnalysisEnded == call.op = "analyze_bill" /\ pc \in {"returned", "reported", "raised"}

\* The item totals and the rate-weighted item totals of a calculate call.
CallItemTotal ==
    SumTo([i \in 1..Len(call.items) |-> call.items[i].total_price], Len(call.items))

CallRateWeightedTotal ==
    SumTo([i \in 1..Len(call.items) |->
              IF "gst_rate" \in DOMAIN call.items[i]
              THEN call.items[i].total_price * call.items[i].gst_rate ELSE 0],
          Len(call.items))

\* C1: calculate(items, subtotal) is (0, 0, 0) when the item totals sum to 0; otherwise
\* total_gst is subtotal * sum_i (total_price_i / item total) * gst_rate_i / 100 rounded
\* to 2 decimals and cgst = sgst is half of the unrounded total_gst rounded to 2
\* decimals: weights from the item totals, rate applied to the subtotal, rounding at
\* return only.
C1_WeightedTax ==
    Calculated =>
        IF CallItemTotal = 0 THEN ret.value = Gst(0, 0, 0)
        ELSE LET exact == MulDiv(call.subtotal_after_discount, CallRateWeightedTotal,
                                 CallItemTotal * 100)
             IN  /\ ret.value.total_gst = Round2(exact[1], exact[2])
                 /\ ret.value.cgst = Round2(exact[1], 2 * exact[2])
                 /\ ret.value.sgst = ret.value.cgst

\* C1 witness: a discounted bill (subtotal below the item total) with items of different
\* rates, whose rounded halves do not add up to the rounded total.
C1_Witness ==
    /\ Calculated
    /\ CallItemTotal > call.subtotal_after_discount
    /\ \E i, j \in 1..Len(call.items) :
          /\ "gst_rate" \in DOMAIN call.items[i] /\ "gst_rate" \in DOMAIN call.items[j]
          /\ call.items[i].gst_rate # call.items[j].gst_rate
    /\ ret.value.total_gst # 2 * ret.value.cgst

C3_ToleranceSymmetry ==
    Analysed =>
        LET r == ret.value
            difference == r.total_gst_charged - r.calculated_total_gst
        IN  /\ r.has_discrepancy = (Abs(r.discrepancy_amount) > 10)
            /\ difference \in {10, -10} => ~r.has_discrepancy
            /\ difference \in {20, -20} => r.has_discrepancy

\* C3 witness: a bill that charged two paise less than calculated.
C3_Witness ==
    /\ Analysed
    /\ ret.value.total_gst_charged - ret.value.calculated_total_gst = -20
    /\ ret.value.has_discrepancy

\* C4: for a raw bill whose items list is empty, no division by zero occurs, the
\* calculated total_gst is 0.0, and has_discrepancy is true exactly when the charged
\* total_gst (in whole paise) is not 0.
C4_ZeroItemSafety ==
    (/\ AnalysisEnded
     /\ "items" \in DOMAIN call.gemini_result
     /\ call.gemini_result.items = <<>>
     /\ Get(call.gemini_result, "total_gst_charged", 0) % 10 = 0)
    => /\ pc # "raised"
       /\ ret.value.calculated_total_gst = 0
       /\ ret.value.has_discrepancy = (Get(call.gemini_result, "total_gst_charged", 0) # 0)

\* C5: whatever the catalog holds, the rate the resolver returns and the rate stored on
\* every line item is between 0 and 100.
C5_RateBounds ==
    /\ Resolved => (0 <= ret.value.gst_rate /\ ret.value.gst_rate <= 100)
    /\ Analysed => \A i \in 1..Len(ret.value.items) :
                      0 <= ret.value.items[i].gst_rate /\ ret.value.items[i].gst_rate <= 100

\* C6: when the catalog lookup fails, resolve returns what the keyword table and the
\* default give for the name.
C6_CatalogUnavailable ==
    (Resolved /\ ~db.ok) => ret.value = KeywordRate(call.item_name)

\* C7: a raw record with absent or zero fields, a positive discount with an absent or
\* zero gross amount included, never makes the analysis raise; absent numbers count as 0.
C7_AbsentFieldsNeverFail ==
    AnalysisEnded =>
        /\ pc # "raised"
        /\ ret.value.gross_amount = Get(call.gemini_result, "gross_amount", 0)
        /\ ret.value.discount = Get(call.gemini_result, "discount", 0)
        /\ ret.value.subtotal = Get(call.gemini_result, "subtotal", 0)
        /\ ret.value.grand_total = Get(call.gemini_result, "grand_total", 0)

\* C8: a raw bill without an items field gives, without raising, a result with no
\* items, calculated total_gst = cgst = sgst = 0.0 and at least one warning.
C8_MalformedInput ==
    (AnalysisEnded /\ "items" \notin DOMAIN call.gemini_result)
    => /\ pc # "raised"
       /\ ret.value.items = <<>>
       /\ ret.value.calculated_total_gst = 0
       /\ ret.value.calculated_cgst = 0
       /\ ret.value.calculated_sgst = 0
       /\ Len(ret.value.warnings) >= 1

\* C9: the confidence validate returns is between 0.0 and 1.0, whichever checks fail.
C9_ConfidenceBounds ==
    /\ Validated => (0 <= ret.value.confidence /\ ret.value.confidence <= 100)
    /\ Analysed => (0 <= ret.value.confidence_score /\ ret.value.confidence_score <= 100)

\* C9 witness: a bill on which every check fails at once.
C9_Witness ==
    /\ Validated
    /\ Len(ret.value.warnings) = 6
    /\ ret.value.confidence = 30

\* The caveat of print_analysis, lines 624-627, as an entry of the serialized result.
HasCaveat(json) ==
    \/ "caveat" \in DOMAIN json
    \/ \E i \in 1..Len(json.warnings) :
          json.warnings[i].kind \in {"NotRecommendedForLegalDisputes", "VerifyManually"}
    \/ \E i \in 1..Len(json.discrepancy.details) :
          json.discrepancy.details[i].kind
              \in {"NotRecommendedForLegalDisputes", "VerifyManually"}

\* C10: the serialized result carries the not-for-formal-dispute caveat exactly when
\* its confidence_score is below 0.90.
C10_LowConfidenceCaveat ==
    pc = "reported" => ((saved.json.confidence_score < 90) = HasCaveat(saved.json))

SampleBillAnalysed ==
    /\ Analysed
    /\ Get(call.gemini_result, "subtotal", 0) = 230000
    /\ Get(call.gemini_result, "total_gst_charged", 0) = 11500
    /\ LET items == ret.value.items IN
       /\ Len(items) = 3
       /\ \E i, j, k \in 1..3 :
             /\ items[i].item_name = "Masala Dosa" /\ items[i].total_price = 120000
             /\ items[i].gst_rate = 5
             /\ items[j].item_name = "Idli" /\ items[j].total_price = 50000
             /\ items[j].gst_rate = 5
             /\ items[k].item_name = "Parotta" /\ items[k].total_price = 60000
             /\ items[k].gst_rate = 0

\* C12 (E2E-1): for the sample bill with Dosa and Idli at 5% and Parotta at 0% the
\* calculated total_gst is 8.50, the discrepancy amount is 3.00, has_discrepancy is
\* true, the details hold an Overcharged line of 3.00, and the per-item notes are
\* exactly one note, naming Parotta.
C12_SampleBill ==
    SampleBillAnalysed =>
        LET details == ret.value.discrepancy_details
            notes   == {i \in 1..Len(details) : details[i].kind = "ShouldHaveZeroGst"}
        IN  /\ ret.value.calculated_total_gst = 8500
            /\ ret.value.discrepancy_amount = 3000
            /\ ret.value.has_discrepancy
            /\ \E i \in 1..Len(details) :
                  details[i].kind = "OverchargedBy" /\ details[i].a = 3000
            /\ ~ \E i \in 1..Len(details) : details[i].kind = "UnderchargedBy"
            /\ Cardinality(notes) = 1
            /\ \A i \in notes : details[i].item_name = "Parotta"

\* C12 witnesses: the sample bill analysed with the rates resolved by keyword against
\* a catalog without rows, and by the rows of a catalog that lists the dishes.
C12_Witness ==
    /\ SampleBillAnalysed
    /\ db.ok /\ db.rows = <<>>
    /\ ret.value.items[3].category = "Food items (fresh)"

C12_WitnessCatalog ==
    /\ SampleBillAnalysed
    /\ db.ok /\ db.rows = CatalogRestaurant

\* Store name and bill number are present and every identity of the raw bill holds
\* exactly for the given items.
ExactBill(bill, items) ==
    LET gross    == Get(bill, "gross_amount", 0)
        discount == Get(bill, "discount", 0)
        subtotal == Get(bill, "subtotal", 0)
        charged  == Get(bill, "total_gst_charged", 0)
        grand    == Get(bill, "grand_total", 0)
    IN  /\ "store_name" \in DOMAIN bill /\ bill.store_name \notin {None, ""}
        /\ "bill_number" \in DOMAIN bill /\ bill.bill_number \notin {None, ""}
        /\ SumTo([i \in 1..Len(items) |-> items[i].total_price], Len(items)) = gross
        /\ gross - discount = subtotal
        /\ subtotal + charged = grand
        /\ \E rate \in {0, 5, 12, 18, 28} : 100 * charged = rate * subtotal

\* C13 (E2E-2): when store name and bill number are present and every identity holds
\* exactly, validate returns confidence 1.0 and no warnings, and the analysis reports a
\* discrepancy exactly when the charged tax differs from the calculated tax by more than
\* the one-paisa tolerance.
C13_ExactIdentities ==
    /\ (Validated /\ ExactBill(call.gemini_result, call.items)) =>
           ret.value = [confidence |-> 100, warnings |-> <<>>]
    /\ (Analysed /\ ExactBill(call.gemini_result, ret.value.items)) =>
           /\ ret.value.confidence_score = 100
           /\ ret.value.warnings = <<>>
           /\ ret.value.has_discrepancy <=>
                  Abs(Round2(Get(call.gemini_result, "total_gst_charged", 0)
                             - ret.value.calculated_total_gst, 1)) > 10

\* C13 witness: an analysed bill whose identities all hold, with items, a tax charged
\* at 5% of the subtotal, and a discrepancy found.
C13_Witness ==
    /\ Analysed /\ ExactBill(call.gemini_result, ret.value.items)
    /\ ret.value.items # <<>>
    /\ Get(call.gemini_result, "total_gst_charged", 0) > 0
    /\ ret.value.has_discrepancy

\* The keyword sets in the order dry fruits, electronics, medical, fresh food,
\* restaurant food that have a keyword occurring in the lowercased name.
SetsWithKeywordIn(name) ==
    LET sets == <<dry_fruits_keywords, electronics_keywords, medical_keywords,
                  food_items_0_percent, food_items_5_percent>>
    IN  {k \in 1..5 : \E i \in 1..Len(sets[k]) :
                         Contains(Lower(Chars(name)), Chars(sets[k][i]))}

NoRowMatchesCall ==
    db.ok /\ \A i \in 1..Len(db.rows) : ~RowMatches(db.rows[i], call.item_name)

\* C14: when no catalog row matches, resolve returns the triple of the first keyword
\* set, in the order dry fruits 5%, electronics 18%, medical 12%, fresh food 0%,
\* restaurant food 5%, that has a keyword occurring in the lowercased name, and
\* (5, null, 'Unknown (default 5%)') when no set has one.
C14_KeywordOrder ==
    (Resolved /\ NoRowMatchesCall) =>
        LET triples == <<Rate(5, "08013200", "Dry fruits and nuts"),
                         Rate(18, None, "Electronics"),
                         Rate(12, None, "Medical supplies"),
                         Rate(0, None, "Food items (fresh)"),
                         Rate(5, None, "Restaurant services")>>
            found   == SetsWithKeywordIn(call.item_name)
        IN  IF found = {} THEN ret.value = Rate(5, None, "Unknown (default 5%)")
            ELSE ret.value = triples[CHOOSE k \in found : \A l \in found : k <= l]

\* C14 witness: a name with an electronics keyword ('ac') and a fresh-food keyword
\* ('milk') resolved to 18% against a catalog with rows, none of which matches.
C14_Witness ==
    /\ Resolved /\ NoRowMatchesCall /\ db.rows # <<>>
    /\ {2, 4} \subseteq SetsWithKeywordIn(call.item_name)
    /\ ret.value.gst_rate = 18

\* The entry's item name or category contains the item name, case-insensitively.
EntryContains(row, name) ==
    \/ Contains(Lower(Chars(row.item_name)), Lower(Chars(name)))
    \/ /\ row.item_category # None
       /\ Contains(Lower(Chars(row.item_category)), Lower(Chars(name)))

\* C15: if some catalog entry's item name or category contains the item name
\* (case-insensitive substring), resolve returns the first such entry's
\* (gst_rate, hsn_code, category) verbatim whatever the keywords in the name; the
\* keyword table and the default are reached only when no entry does.
C15_CatalogPrecedence ==
    (Resolved /\ db.ok) =>
        LET entries == {i \in 1..Len(db.rows) : EntryContains(db.rows[i], call.item_name)}
        IN  IF entries # {}
            THEN LET entry == db.rows[CHOOSE i \in entries : \A j \in entries : i <= j]
                 IN  ret.value = Rate(entry.gst_rate, entry.hsn_code, entry.item_category)
            ELSE ret.value = KeywordRate(call.item_name)

\* The penalty, in hundredths, of the check that emits a warning of the given kind.
PenaltyOf(kind) ==
    CASE kind = "ItemsSumNotGross"              -> 15
      [] kind = "GrossMinusDiscountNotSubtotal" -> 15
      [] kind = "MinorRoundingDifference"       -> 5
      [] kind = "SubtotalPlusGstNotGrandTotal"  -> 20
      [] kind = "UnusualGstRate"                -> 10
      [] kind = "StoreNameNotFound"             -> 5
      [] kind = "BillNumberNotFound"            -> 5

HasWarning(warnings, kind) == \E i \in 1..Len(warnings) : warnings[i].kind = kind

\* The checks that fired are those whose warning is listed, each at most once;
\* confidence is 1.0 minus their penalties, clamped; the items-vs-gross and the
\* final-totals checks fired iff their difference exceeds 1.0.
ConfidenceIsOneMinusPenalties(bill, items, confidence, warnings) ==
    LET item_sum == SumTo([i \in 1..Len(items) |-> items[i].total_price], Len(items))
        penalty  == SumTo([i \in 1..Len(warnings) |-> PenaltyOf(warnings[i].kind)],
                          Len(warnings))
        c1 == Abs(item_sum - Get(bill, "gross_amount", 0)) > 1000
        c3 == Abs(Get(bill, "subtotal", 0) + Get(bill, "total_gst_charged", 0)
                  - Get(bill, "grand_total", 0)) > 1000
    IN  /\ \A i, j \in 1..Len(warnings) : warnings[i].kind = warnings[j].kind => i = j
        /\ confidence = (IF penalty > 100 THEN 0 ELSE 100 - penalty)
        /\ HasWarning(warnings, "ItemsSumNotGross") <=> c1
        /\ HasWarning(warnings, "SubtotalPlusGstNotGrandTotal") <=> c3
        /\ c1 => confidence <= 85
        /\ c3 => confidence <= 80

\* C16: confidence is 1.0 minus the sum of the penalties of the checks that fired
\* (items-vs-gross 0.15, discount 0.15 hard or 0.05 soft, final totals 0.20, rate
\* plausibility 0.10, store name 0.05, bill number 0.05), clamped to [0,1]; an
\* items-vs-gross mismatch (difference above 1.0) always gives its warning and
\* confidence <= 0.85, a final-totals mismatch its warning and confidence <= 0.80.
C16_ConfidenceFormula ==
    /\ Validated =>
          ConfidenceIsOneMinusPenalties(call.gemini_result, call.items,
                                        ret.value.confidence, ret.value.warnings)
    /\ Analysed =>
          ConfidenceIsOneMinusPenalties(call.gemini_result, ret.value.items,
                                        ret.value.confidence_score, ret.value.warnings)

\* C16 witness: the items-vs-gross and final-totals checks both fired on a bill with
\* items and the other checks did not: confidence 0.65.
C16_Witness ==
    /\ Validated /\ call.items # <<>>
    /\ Len(ret.value.warnings) = 2
    /\ HasWarning(ret.value.warnings, "ItemsSumNotGross")
    /\ HasWarning(ret.value.warnings, "SubtotalPlusGstNotGrandTotal")
    /\ ret.value.confidence = 65

\* |gross - discount - subtotal| of a raw bill, and the tolerance for its discount.
DiscountDiff(bill) ==
    Abs(Get(bill, "gross_amount", 0) - Get(bill, "discount", 0) - Get(bill, "subtotal", 0))

DiscountTol(bill) == IF Get(bill, "discount", 0) > 100000 THEN 30000 ELSE 1000

HardAndSoftAsSpecified(bill, warnings) ==
    LET hard == HasWarning(warnings, "GrossMinusDiscountNotSubtotal")
        soft == HasWarning(warnings, "MinorRoundingDifference")
    IN  /\ hard <=> DiscountDiff(bill) > DiscountTol(bill)
        /\ soft <=> (1000 < DiscountDiff(bill) /\ DiscountDiff(bill) <= DiscountTol(bill))
        /\ ~(hard /\ soft)
        /\ soft => Get(bill, "discount", 0) > 100000

\* C17: with diff = |gross - discount - subtotal| and tol = 30.0 if discount > 100
\* else 1.0, the hard discount check (mismatch warning) fires iff diff > tol, the soft
\* one (minor rounding note) iff 1.0 < diff <= tol, never both; the soft check fires
\* only when discount > 100.
C17_DiscountCheck ==
    /\ Validated => HardAndSoftAsSpecified(call.gemini_result, ret.value.warnings)
    /\ Analysed => HardAndSoftAsSpecified(call.gemini_result, ret.value.warnings)

\* C17 witness: the soft check fired alone of the two at a difference of exactly 30
\* on a bill with a discount above 100, costing 0.05.
C17_Witness ==
    /\ Validated
    /\ {"discount", "subtotal"} \subseteq DOMAIN call.gemini_result
    /\ DiscountDiff(call.gemini_result) = 30000
    /\ ret.value.warnings = <<Warning("MinorRoundingDifference",
                                       Get(call.gemini_result, "gross_amount", 0)
                                       - call.gemini_result.discount,
                                       call.gemini_result.subtotal)>>
    /\ ret.value.confidence = 95

\* The effective rate charged / subtotal * 100 is more than 0.5 away from every slab.
FartherThanHalfFromEverySlab(bill) ==
    \A rate \in {0, 5, 12, 18, 28} :
        2 * Abs(100 * Get(bill, "total_gst_charged", 0) - rate * Get(bill, "subtotal", 0))
            > Get(bill, "subtotal", 0)

\* C18: the rate-plausibility check fires (unusual-rate warning, penalty 0.10) iff
\* subtotal > 0 and the effective rate is not within 0.5 of any of 0, 5, 12, 18, 28;
\* a distance of exactly 0.5 counts as within and is not penalised; with
\* subtotal <= 0 the check is skipped.
C18_RatePlausibility ==
    Validated =>
        (HasWarning(ret.value.warnings, "UnusualGstRate")
            <=> /\ Get(call.gemini_result, "subtotal", 0) > 0
                /\ FartherThanHalfFromEverySlab(call.gemini_result))

\* The field is absent from the raw bill, null or empty.
AbsentOrEmpty(bill, field) == field \notin DOMAIN bill \/ bill[field] \in {None, ""}

\* C19 as stated: a missing store name or bill number lowers confidence by 0.05 and
\* adds no entry to the warnings list, which holds entries only for the
\* items-vs-gross, discount (hard or soft), final-totals and rate-plausibility checks.
C19_MissingIdentityFields ==
    Validated =>
        \A i \in 1..Len(ret.value.warnings) :
            ret.value.warnings[i].kind \in
                {"ItemsSumNotGross", "GrossMinusDiscountNotSubtotal",
                 "MinorRoundingDifference", "SubtotalPlusGstNotGrandTotal",
                 "UnusualGstRate"}

\* C19 amended: an absent or empty store_name, and an absent or empty bill_number,
\* each lower confidence by 0.05 and each append one entry of their own to the
\* warnings list, after the entries of the four arithmetic checks and the store
\* name before the bill number; a field that is present and non-empty adds none.
C19_MissingIdentityWarned ==
    Validated =>
        LET warnings == ret.value.warnings
            identity == {i \in 1..Len(warnings) :
                            warnings[i].kind \in {"StoreNameNotFound", "BillNumberNotFound"}}
            others   == (1..Len(warnings)) \ identity
            store    == AbsentOrEmpty(call.gemini_result, "store_name")
            number   == AbsentOrEmpty(call.gemini_result, "bill_number")
        IN  /\ store <=> \E i \in identity : warnings[i] = Warning("StoreNameNotFound", 0, 0)
            /\ number <=> \E i \in identity : warnings[i] = Warning("BillNumberNotFound", 0, 0)
            /\ Cardinality(identity) = (IF store THEN 1 ELSE 0) + (IF number THEN 1 ELSE 0)
            /\ \A i \in identity, j \in others : j < i
            /\ \A i, j \in identity :
                  (warnings[i].kind = "StoreNameNotFound"
                   /\ warnings[j].kind = "BillNumberNotFound") => i < j
            /\ ret.value.confidence =
                  100 - SumTo([i \in 1..Len(warnings) |->
                                  IF i \in others THEN PenaltyOf(warnings[i].kind) ELSE 0],
                              Len(warnings))
                      - (IF store THEN 5 ELSE 0) - (IF number THEN 5 ELSE 0)

\* C19 witness: a bill with an empty store name and a bill number, whose arithmetic
\* checks all pass, validated with the single warning for the store name at 0.95.
C19_Witness ==
    /\ Validated
    /\ "store_name" \in DOMAIN call.gemini_result /\ call.gemini_result.store_name = ""
    /\ ret.value = [confidence |-> 95, warnings |-> <<Warning("StoreNameNotFound", 0, 0)>>]

\* The raw bill without the fields only the validator and the identity lines read.
WithoutValidatorOnlyFields(bill) ==
    [k \in DOMAIN bill \ {"grand_total", "store_name", "bill_number"} |-> bill[k]]

\* What the validator contributes to an outcome, and what the normalizer, the
\* calculator and the reporter contribute; an exception is the whole outcome.
ValidationOf(outcome) ==
    IF outcome.status # "returned" THEN outcome
    ELSE [confidence_score |-> outcome.value.confidence_score,
          warnings         |-> outcome.value.warnings]

CalculationOf(outcome) ==
    IF outcome.status # "returned" THEN outcome
    ELSE [items                  |-> outcome.value.items,
          calculated_total_gst   |-> outcome.value.calculated_total_gst,
          calculated_cgst        |-> outcome.value.calculated_cgst,
          calculated_sgst        |-> outcome.value.calculated_sgst,
          calculated_grand_total |-> outcome.value.calculated_grand_total,
          has_discrepancy        |-> outcome.value.has_discrepancy,
          discrepancy_amount     |-> outcome.value.discrepancy_amount,
          discrepancy_details    |-> outcome.value.discrepancy_details]

\* C20: confidence and warnings do not depend on the catalog: the same bill analysed
\* against the unavailable catalog, which resolves every item to 5%, gets the same
\* confidence and warnings as against any other. And the validator does not alter the
\* analysis: the bill stripped of grand_total, store_name and bill_number ends the
\* same way, with the same items, calculated values and discrepancy found, amount and
\* details. Bills that differ only in the catalog, or only in the three fields,
\* therefore agree with one another.
C20_ValidatorIndependence ==
    (AnalysisEnded /\ first = NoReturn /\ pc # "reported") =>
        /\ ValidationOf(analyze_bill(call.gemini_result, DbUnavailable)) = ValidationOf(ret)
        /\ CalculationOf(analyze_bill(WithoutValidatorOnlyFields(call.gemini_result), db))
             = CalculationOf(ret)

\* C20 witness: a bill analysed against a catalog that resolves an item to 0%, with a
\* discrepancy the 5% of the unavailable catalog would not give, and with a confidence
\* the identity fields and grand total keep at 1.0 and their absence would lower.
C20_Witness ==
    /\ Analysed /\ first = NoReturn /\ pc = "returned"
    /\ ret.value.has_discrepancy
    /\ ~analyze_bill(call.gemini_result, DbUnavailable).value.has_discrepancy
    /\ ret.value.confidence_score = 100
    /\ analyze_bill(WithoutValidatorOnlyFields(call.gemini_result), db).value.confidence_score
         < 90

----------------------------------------------------------------------------
\* The raw items of the bill under analysis.
CallRawItems == Get(call.gemini_result, "items", <<>>)

\* The field of a raw item is carried over as it is, when the raw item has it.
Carried(raw, item, field) == field \in DOMAIN raw => item[field] = raw[field]

\* C21: normalization produces exactly one line item per raw item, in input order
\* (no items in, no items out, and no failure of the analysis for that), and each
\* line item carries the raw quantity, unit_price and total_price unchanged:
\* total_price is never recomputed from quantity * unit_price.
C21_NormalizationShape ==
    /\ Analysed =>
          /\ Len(ret.value.items) = Len(CallRawItems)
          /\ \A i \in 1..Len(CallRawItems) :
                /\ ret.value.items[i].item_name = Get(CallRawItems[i], "item_name", "")
                /\ Carried(CallRawItems[i], ret.value.items[i], "quantity")
                /\ Carried(CallRawItems[i], ret.value.items[i], "unit_price")
                /\ Carried(CallRawItems[i], ret.value.items[i], "total_price")
    /\ (AnalysisEnded /\ CallRawItems = <<>> /\ Get(call.gemini_result, "discount", 0) <= 0)
          => pc # "raised"

\* A bill of several items was normalised, one of them with a total_price that is
\* not quantity * unit_price.
C21_Witness ==
    /\ Analysed
    /\ Len(CallRawItems) >= 2
    /\ \E i \in 1..Len(CallRawItems) :
          /\ {"quantity", "unit_price", "total_price"} \subseteq DOMAIN CallRawItems[i]
          /\ CallRawItems[i].total_price
                # CallRawItems[i].quantity * CallRawItems[i].unit_price
          /\ ret.value.items[i].total_price = CallRawItems[i].total_price

\* C22: after normalization every line item has a gst_rate that is not None, and
\* cgst = sgst = (total_price * gst_rate / 100) / 2 to 2 decimals, from the raw
\* item's own total_price and the rate resolved for its name: the bill's discount,
\* subtotal and charged tax do not enter.
C22_PerItemSplit ==
    Analysed =>
        \A i \in 1..Len(ret.value.items) :
            LET item == ret.value.items[i]
                raw_price == Get(CallRawItems[i], "total_price", 0)
            IN  /\ ~IsNone(item, "gst_rate")
                /\ item.gst_rate = get_correct_gst_rate(item.item_name, db).gst_rate
                /\ item.cgst = item.sgst
                /\ item.cgst = Round2(raw_price * item.gst_rate, 200)

\* A discounted bill was analysed and one of its items carries a non-zero split.
C22_Witness ==
    /\ Analysed
    /\ Get(call.gemini_result, "discount", 0) > 0
    /\ Get(call.gemini_result, "total_gst_charged", 0) > 0
    /\ \E i \in 1..Len(ret.value.items) :
          /\ ret.value.items[i].cgst > 0
          /\ ret.value.items[i].gst_rate > 0
          /\ Get(call.gemini_result, "subtotal", 0) # ret.value.items[i].total_price

\* discrepancy.details of the returned analysis without the discount note.
DetailsAfterDiscountNote ==
    IF ret.value.discrepancy_details # <<>>
       /\ Head(ret.value.discrepancy_details).kind = "DiscountApplied"
    THEN Tail(ret.value.discrepancy_details)
    ELSE ret.value.discrepancy_details

IsZeroRateNote(detail) == detail.kind = "ShouldHaveZeroGst"

\* The names of the 0% items of the returned analysis, in item order.
ZeroRatedNames ==
    LET IsZeroRated(item) == item.gst_rate = 0
        zero_rated == SelectSeq(ret.value.items, IsZeroRated)
    IN  [k \in 1..Len(zero_rated) |-> zero_rated[k].item_name]

\* The per-item notes are those of names, once each and in that order, and they
\* follow the charged/should-be line and the Overcharged/Undercharged line.
ZeroRateNotesAre(names) ==
    LET rest  == DetailsAfterDiscountNote
        notes == SelectSeq(rest, IsZeroRateNote)
    IN  /\ [k \in 1..Len(notes) |-> notes[k].item_name] = names
        /\ notes # <<>> =>
              /\ Len(rest) = 2 + Len(notes)
              /\ rest[1].kind = "BillChargedButShouldBe"
              /\ rest[2].kind \in {"OverchargedBy", "UnderchargedBy"}
              /\ SubSeq(rest, 3, Len(rest)) = notes

\* C23 as stated: an item has a per-item note in discrepancy.details iff its
\* resolved rate is 0%, the tax the bill states is not zero, and a discrepancy was
\* found; the notes follow the charged/should-be and Overcharged/Undercharged
\* lines, once per such item in item order.
C23_ZeroRateNotesNonzero ==
    Analysed =>
        ZeroRateNotesAre(IF ret.value.total_gst_charged # 0 /\ ret.value.has_discrepancy
                         THEN ZeroRatedNames ELSE <<>>)

\* C23, amended: an item has a per-item note in discrepancy.details iff its
\* resolved rate is 0%, the tax the bill states is greater than zero, and a
\* discrepancy was found; the notes follow the charged/should-be and
\* Overcharged/Undercharged lines, once per such item in item order, and no item
\* with a non-zero rate has one.
C23_ZeroRateNotesPositive ==
    Analysed =>
        ZeroRateNotesAre(IF ret.value.total_gst_charged > 0 /\ ret.value.has_discrepancy
                         THEN ZeroRatedNames ELSE <<>>)

\* A bill that charged tax was found discrepant; it has a 0% item, which is noted,
\* and an item at another rate, which is not.
C23_Witness ==
    /\ Analysed
    /\ ret.value.has_discrepancy
    /\ ret.value.total_gst_charged > 0
    /\ ZeroRatedNames # <<>>
    /\ Len(ZeroRatedNames) < Len(ret.value.items)
    /\ \E i \in 1..Len(ret.value.discrepancy_details) :
          /\ IsZeroRateNote(ret.value.discrepancy_details[i])
          /\ ret.value.discrepancy_details[i].item_name = ZeroRatedNames[1]

IsDiscountNote(detail) == detail.kind = "DiscountApplied"

\* C24: for every bill whose extracted discount is > 0 the first entry of
\* discrepancy.details is a note with the discount amount and its percentage of
\* gross_amount, before any charged/should-be line, and there is no other such
\* note; for a discount <= 0 no such note appears.
C24_DiscountNote ==
    AnalysisEnded =>
        LET discount == Get(call.gemini_result, "discount", 0)
            gross_amount == Get(call.gemini_result, "gross_amount", 0)
        IN  IF discount > 0
            THEN /\ pc # "raised"
                 /\ ret.value.discrepancy_details # <<>>
                 /\ Head(ret.value.discrepancy_details)
                        = Detail("DiscountApplied", Fmt2(discount),
                                 Fmt1Percent(discount, gross_amount), "")
                 /\ SelectSeq(Tail(ret.value.discrepancy_details), IsDiscountNote) = <<>>
            ELSE /\ pc # "raised"
                 /\ SelectSeq(ret.value.discrepancy_details, IsDiscountNote) = <<>>

\* C25: when has_discrepancy is false, discrepancy.details has no charged/should-be
\* line, no Overcharged/Undercharged line and no per-item note: it is empty if
\* discount <= 0 and holds exactly the discount note if discount > 0; the saved
\* dict shows the same details next to found = false.
C25_DetailsWithoutDiscrepancy ==
    (Analysed /\ ~ret.value.has_discrepancy) =>
        /\ ret.value.discrepancy_details
              = IF ret.value.discount > 0
                THEN <<DiscountNote(ret.value.discount, ret.value.gross_amount)>>
                ELSE <<>>
        /\ \A i \in 1..Len(ret.value.discrepancy_details) :
              ret.value.discrepancy_details[i].kind
                 \notin {"BillChargedButShouldBe", "OverchargedBy", "UnderchargedBy",
                         "ShouldHaveZeroGst"}
        /\ saved.written =>
              /\ saved.json.discrepancy.found = FALSE
              /\ saved.json.discrepancy.details = ret.value.discrepancy_details

\* A discounted bill with a 0% item charged the right tax: no discrepancy was
\* found, and the saved details hold one entry, the discount note.
C25_Witness ==
    /\ Analysed
    /\ ~ret.value.has_discrepancy
    /\ ret.value.discount > 0
    /\ ret.value.total_gst_charged > 0
    /\ \E i \in 1..Len(ret.value.items) : ret.value.items[i].gst_rate = 0
    /\ saved.written
    /\ ~saved.json.discrepancy.found
    /\ Len(saved.json.discrepancy.details) = 1

\* C26: for every item list and subtotal, calculated cgst = calculated sgst, and
\* cgst + sgst differs from calculated total_gst by at most one paisa (the values
\* are rounded separately, so the sum need not equal the total); the same holds of
\* the calculated values of an analysis.
C26_SymmetricSplit ==
    /\ Calculated =>
          /\ ret.value.cgst = ret.value.sgst
          /\ Abs(ret.value.cgst + ret.value.sgst - ret.value.total_gst) <= 10
    /\ Analysed =>
          /\ ret.value.calculated_cgst = ret.value.calculated_sgst
          /\ Abs(ret.value.calculated_cgst + ret.value.calculated_sgst
                 - ret.value.calculated_total_gst) <= 10

\* calculate_correct_gst returned, for items at different rates, halves whose sum
\* is not the total.
C26_Witness ==
    /\ Calculated
    /\ \E i, j \in 1..Len(call.items) :
          /\ ~IsNone(call.items[i], "gst_rate") /\ ~IsNone(call.items[j], "gst_rate")
          /\ call.items[i].gst_rate # call.items[j].gst_rate
    /\ ret.value.total_gst > 0
    /\ ret.value.cgst + ret.value.sgst # ret.value.total_gst

\* The items of the pending calculate call all carry a rate and a price >= 0, their
\* prices sum to more than zero, and the taxable subtotal is >= 0.
BlendedRateCase ==
    /\ Calculated
    /\ \A i \in 1..Len(call.items) :
          ~IsNone(call.items[i], "gst_rate") /\ call.items[i].total_price >= 0
    /\ CallItemTotal > 0
    /\ call.subtotal_after_discount >= 0

\* The rates of the positively priced items of the call.
PricedRates ==
    {call.items[i].gst_rate : i \in {j \in 1..Len(call.items) : call.items[j].total_price > 0}}

IsPriced(item) == item.total_price # 0

PerItemCase ==
    /\ Calculated
    /\ \A i \in 1..Len(call.items) : ~IsNone(call.items[i], "gst_rate")
    /\ CallItemTotal > 0

C28_WitnessDiscount ==
    /\ PerItemCase
    /\ 0 < call.subtotal_after_discount
    /\ call.subtotal_after_discount < CallItemTotal
    /\ ret.value.total_gst > 0
    /\ ret.value.total_gst
          < Round2(calculated_gst_per_item(call.items)[1], calculated_gst_per_item(call.items)[2])

\* x is a whole number of paise.
WholePaise(x) == x % 10 = 0

\* The bill under analysis states grand_total = subtotal + total_gst_charged.
BillTotalsAdd ==
    /\ Analysed
    /\ "grand_total" \in DOMAIN call.gemini_result
    /\ call.gemini_result.grand_total
          = Get(call.gemini_result, "subtotal", 0)
            + Get(call.gemini_result, "total_gst_charged", 0)

\* calculated.grand_total is round(subtotal + calculated.total_gst, 2), from the
\* bill's stated subtotal and the items alone; the saved dict shows it.
GrandTotalFromSubtotal ==
    LET subtotal == Get(call.gemini_result, "subtotal", 0) IN
    /\ ret.value.calculated_grand_total
          = Round2(subtotal + calculate_correct_gst(ret.value.items, subtotal).total_gst, 1)
    /\ ret.value.calculated_grand_total
          = Round2(subtotal + ret.value.calculated_total_gst, 1)
    /\ saved.written =>
          saved.json.correct_calculation.grand_total = ret.value.calculated_grand_total

\* C29 as stated: calculated.grand_total = round(subtotal + calculated.total_gst, 2),
\* from the bill's stated subtotal and never from its grand_total or charged tax;
\* and for every bill with grand_total = subtotal + total_gst_charged, the bill's
\* grand_total minus calculated.grand_total equals discrepancy.amount.
C29_GrandTotalDifference ==
    /\ Analysed => GrandTotalFromSubtotal
    /\ BillTotalsAdd =>
          ret.value.grand_total - ret.value.calculated_grand_total
             = ret.value.discrepancy_amount

\* C29, amended: calculated.grand_total = round(subtotal + calculated.total_gst, 2),
\* from the bill's stated subtotal and never from its grand_total or charged tax;
\* and for every bill with grand_total = subtotal + total_gst_charged, the bill's
\* grand_total minus calculated.grand_total equals discrepancy.amount when subtotal
\* and total_gst_charged are whole paise, and is within one paisa of it otherwise.
C29_GrandTotalDifferenceInPaise ==
    /\ Analysed => GrandTotalFromSubtotal
    /\ BillTotalsAdd =>
          /\ Abs(ret.value.grand_total - ret.value.calculated_grand_total
                 - ret.value.discrepancy_amount) <= 10
          /\ (WholePaise(ret.value.subtotal) /\ WholePaise(ret.value.total_gst_charged)) =>
                ret.value.grand_total - ret.value.calculated_grand_total
                   = ret.value.discrepancy_amount

\* A bill in whole paise whose totals add up was found discrepant and saved: the
\* grand totals differ by the discrepancy amount.
C29_Witness ==
    /\ BillTotalsAdd
    /\ WholePaise(ret.value.subtotal) /\ WholePaise(ret.value.total_gst_charged)
    /\ ret.value.subtotal > 0
    /\ ret.value.calculated_total_gst > 0
    /\ ret.value.has_discrepancy
    /\ ret.value.grand_total - ret.value.calculated_grand_total = ret.value.discrepancy_amount
    /\ saved.written

\* What an item without a name receives from database d, by the claim: the first
\* row of a catalog that has rows, the default of an empty one.
EmptyNameRate(d) ==
    IF d.rows # <<>>
    THEN Rate(d.rows[1].gst_rate, d.rows[1].hsn_code, d.rows[1].item_category)
    ELSE Rate(5, None, "Unknown (default 5%)")

\* The raw items of the bill under analysis whose item_name is empty or absent.
UnnamedItems == {i \in 1..Len(CallRawItems) : Get(CallRawItems[i], "item_name", "") = ""}

C30_WitnessEmptyCatalog ==
    /\ Resolved /\ call.item_name = "" /\ db.ok /\ db.rows = <<>>
    /\ ret.value = Rate(5, None, "Unknown (default 5%)")

====
